---- MODULE Spec2Model ----
(***************************************************************************)
(* The useDatepicker hook of react-datepicker: the range selection state   *)
(* machine (onDateSelect, onDateHover, onResetDates), the month window     *)
(* (getInitialMonths, getNextActiveMonth and the four navigation handlers) *)
(* and the key/focus handlers, with the date-fns helpers they call.        *)
(*                                                                         *)
(* A Date is modelled by its day number, counted from 0 = 1 January 1970;  *)
(* every date the hook handles is a midnight-normalised day, so            *)
(* getTime() comparisons are comparisons of day numbers. JavaScript null   *)
(* is Null (the model handles no date before 2020, so none has number 0).  *)
(***************************************************************************)
EXTENDS Integers, Sequences, FiniteSets

VARIABLES
    startDate, endDate, focusedInput,        \* props, owned by the parent
    minBookingDate, maxBookingDate,          \* props: inclusive bounds or Null
    minBookingDays, exactMinBookingDays,     \* props: booking length
    numberOfMonths, initialVisibleMonth,     \* props: window layout
    unavailableDates, isDateBlockedProps,    \* props: blocked dates (the set on
                                             \* which the caller's predicate is true)
    activeMonths, hoveredDate, focusedDate,  \* useState cells of the hook
    onDatesChange,                           \* the calls the last handler made to
                                             \* props.onDatesChange, in order
    call,                                    \* the last handler invoked
    mounted,                                 \* the component is mounted
    listeners,                               \* the keydown listeners of the hook on
                                             \* window: 0 is the handleKeyDown of the
                                             \* latest render, k the one of the
                                             \* render k renders before it
    useMonthProps, days,                     \* useMonth: its props and the day grid
                                             \* it returns (0 is a blank cell)
    inputs                                   \* the two Input components of
                                             \* DateRangeInput: the text shown and the
                                             \* texts of the pending parse timers

selection == <<startDate, endDate, focusedInput>>
config == <<minBookingDate, maxBookingDate, minBookingDays, exactMinBookingDays,
            numberOfMonths, initialVisibleMonth, unavailableDates, isDateBlockedProps>>
hookState == <<activeMonths, hoveredDate, focusedDate>>
lifecycle == <<mounted, listeners>>
components == <<useMonthProps, days, inputs>>
vars == <<selection, config, hookState, onDatesChange, call, lifecycle, components>>

Null == 0
START_DATE == "startDate"
END_DATE == "endDate"
NoInput == "null"

-----------------------------------------------------------------------------
(* Bounds of the model. *)

NumDays == 3              \* the dates a click, hover or focus can name
MaxMinBookingDays == 2    \* minBookingDays ranges over 1..MaxMinBookingDays
MaxBlocked == 1           \* blocked dates named by the caller
MaxNumYears == 1          \* goToNextYear / goToPreviousYear take 1..MaxNumYears
MaxNumberOfMonths == 13   \* numberOfMonths ranges over 1..MaxNumberOfMonths
MaxRenders == 3           \* a listener is followed over MaxRenders renders
NumGridYears == 2         \* useMonth renders the months of 2023 .. 2023 + NumGridYears - 1
NumTypedDays == 2         \* the dates typed into an input are Today .. Today + NumTypedDays - 1

-----------------------------------------------------------------------------
(* The calendar (JavaScript Date arithmetic on local midnights). *)

\* Day number of the first day of the month numbered mi = year * 12 + month
\* (month 0-based), and the civil date [year, month, date] of a day number:
\* the proleptic Gregorian calendar, as Date implements it.
FirstDayOfMonth(mi) ==
    LET m == (mi % 12) + 1
        y == (mi \div 12) - (IF m <= 2 THEN 1 ELSE 0)
        era == y \div 400
        yoe == y - era * 400
        doy == (153 * (m + (IF m > 2 THEN -3 ELSE 9)) + 2) \div 5
        doe == yoe * 365 + (yoe \div 4) - (yoe \div 100) + doy
    IN  era * 146097 + doe - 719468

CivilOfDay(d) ==
    LET z == d + 719468
        era == z \div 146097
        doe == z - era * 146097
        yoe == (doe - (doe \div 1460) + (doe \div 36524) - (doe \div 146096)) \div 365
        doy == doe - (365 * yoe + (yoe \div 4) - (yoe \div 100))
        mp == (5 * doy + 2) \div 153
        m == IF mp < 10 THEN mp + 3 ELSE mp - 9
    IN  [year |-> yoe + era * 400 + (IF m <= 2 THEN 1 ELSE 0),
         month |-> m - 1,
         date |-> doy - ((153 * mp + 2) \div 5) + 1]

\* The calendar from 2018 to 2030, tabulated once; the model's dates stay
\* well inside it.
CalendarMonths == (2018 * 12) .. (2030 * 12 + 11)
FirstDays == [mi \in CalendarMonths |-> FirstDayOfMonth(mi)]
CalendarDays == FirstDayOfMonth(2018 * 12) .. (FirstDayOfMonth(2031 * 12) - 1)
CivilDates == [d \in CalendarDays |-> CivilOfDay(d)]

\* new Date(year, month, day); month may lie outside 0..11, which Date
\* normalises into the neighbouring years.
DateOf(year, month, day) == FirstDays[year * 12 + month] + day - 1
Civil(d) == CivilDates[d]

getFullYear(d) == Civil(d).year
getMonth(d) == Civil(d).month
getDate(d) == Civil(d).date

\* date-fns getDaysInMonth: the date of day 0 of the following month.
getDaysInMonth(year, month) == getDate(DateOf(year, month + 1, 1) - 1)

Min(a, b) == IF a < b THEN a ELSE b

-----------------------------------------------------------------------------
(* date-fns *)

addDays(date, amount) == date + amount
isBefore(date, dateToCompare) == date < dateToCompare
isAfter(date, dateToCompare) == date > dateToCompare
isSameDay(dateLeft, dateRight) == dateLeft = dateRight
\* useDatepicker imports isSameMonth from 'date-fns/isSameDay'.
isSameMonth(dateLeft, dateRight) == isSameDay(dateLeft, dateRight)
isWithinRange(date, start, end) == start <= date /\ date <= end
\* The hook calls eachDay only with start <= end (minBookingDays >= 1).
eachDay(start, end) == start .. end
startOfMonth(date) ==
    LET c == Civil(date)
    IN  DateOf(c.year, c.month, 1)

addMonths(date, amount) ==
    LET c == Civil(date)
        desiredMonth == c.month + amount
        daysInMonth == getDaysInMonth(c.year, desiredMonth)
    IN  DateOf(c.year, desiredMonth, Min(daysInMonth, c.date))

\* Date.prototype.getDay: 0 is Sunday; day 0, 1 January 1970, is a Thursday.
getDay(date) == (date + 4) % 7
endOfMonth(date) ==
    LET c == Civil(date)
    IN  DateOf(c.year, c.month + 1, 1) - 1

-----------------------------------------------------------------------------
(* useMonth: the day grid of a month. A cell is a date, or 0 for a blank; *)
(* the label of a cell is left out.                                        *)

\* Faulty variant: the wrap-around of the week is one cell short.
getDaysShortWrap(year, month, firstDayOfWeek) ==
    LET date == DateOf(year, month, 1)
        monthStart == startOfMonth(date)
        monthStartDay == getDay(monthStart)
        monthEnd == endOfMonth(date)
        prevMonthDays ==
            IF monthStartDay >= firstDayOfWeek
            THEN monthStartDay - firstDayOfWeek
            ELSE 6 - firstDayOfWeek + monthStartDay
    IN  [i \in 1 .. prevMonthDays |-> 0]
            \o [i \in 1 .. (monthEnd - monthStart + 1) |-> monthStart + i - 1]

getDays(year, month, firstDayOfWeek) ==
    LET date == DateOf(year, month, 1)
        monthStart == startOfMonth(date)
        monthStartDay == getDay(monthStart)
        monthEnd == endOfMonth(date)
        prevMonthDays ==
            IF monthStartDay >= firstDayOfWeek
            THEN monthStartDay - firstDayOfWeek
            ELSE 6 - firstDayOfWeek + monthStartDay + 1
    IN  [i \in 1 .. prevMonthDays |-> 0]
            \o [i \in 1 .. (monthEnd - monthStart + 1) |-> monthStart + i - 1]

-----------------------------------------------------------------------------
(* useDatepicker.utils: the month window *)

Today == DateOf(2024, 0, 30)

getDateMonthAndYear(date) ==
    LET today == startOfMonth(date)
        c == Civil(today)
    IN  [year |-> c.year, month |-> c.month, date |-> today]

\* Every date the two reduces below hand to addMonths is a first of month
\* (a startOfMonth result), and on those addMonths composes: moving by a and
\* then by b is moving by a + b. The k-th month of a reduce is therefore
\* written as one addMonths from the reduce's first date.

\* The reduce of getInitialMonths appends, numberOfMonths - 1 times, the month
\* after the last entry's date.
getInitialMonths(numberOfMonths_, startDate_) ==
    LET startDateMonth ==
            getDateMonthAndYear(IF startDate_ # Null THEN startDate_ ELSE Today)
    IN  IF numberOfMonths_ > 1
        THEN [i \in 1 .. numberOfMonths_ |->
                 IF i = 1 THEN startDateMonth
                 ELSE getDateMonthAndYear(addMonths(startDateMonth.date, i - 1))]
        ELSE <<startDateMonth>>

\* The reduce of getNextActiveMonth runs numberOfMonths times: the first step
\* moves prevMonth by counter months, every later step by one month forwards
\* (counter >= 0) or backwards; each month is appended when counter > 0 and
\* put in front otherwise.
\* Faulty variant: every month of the window is moved by counter months.
getNextActiveMonthShifted(activeMonth, numberOfMonths_, counter) ==
    [i \in 1 .. numberOfMonths_ |->
        getDateMonthAndYear(addMonths(activeMonth[i].date, counter))]

getNextActiveMonth(activeMonth, numberOfMonths_, counter) ==
    LET prevMonth ==
            IF counter > 0 THEN activeMonth[Len(activeMonth)].date
            ELSE activeMonth[1].date
        step == IF counter >= 0 THEN 1 ELSE -1
        nextMonth(k) == addMonths(prevMonth, counter + (k - 1) * step)
    IN  [i \in 1 .. numberOfMonths_ |->
            getDateMonthAndYear(
                nextMonth(IF counter > 0 THEN i ELSE numberOfMonths_ + 1 - i))]

-----------------------------------------------------------------------------
(* useDatepicker.utils: the selection predicates *)

isInUnavailableDates(unavailableDates_, date) ==
    \E d \in unavailableDates_ : isSameDay(date, d)

\* Faulty variant: the caller's isDateBlocked predicate is not consulted.
disabledDatesByUserListOnly(date) == isInUnavailableDates(unavailableDates, date)

disabledDatesByUser(date) ==
    isInUnavailableDates(unavailableDates, date) \/ date \in isDateBlockedProps

\* The two bound tests canSelectRange computes first, and its minimum-length
\* test. A bound the call site leaves out is Null.
isStartDateAfterOrEqualMinDate(startDate_, minBookingDate_) ==
    minBookingDate_ = Null \/ ~isBefore(startDate_, addDays(minBookingDate_, -1))

\* Faulty variant: the last day of the stay is taken one day too late.
isStartDateBeforeOrEqualMaxDateOffByOne(startDate_, minBookingDays_, maxBookingDate_) ==
    \/ maxBookingDate_ = Null
    \/ ~isAfter(addDays(startDate_, minBookingDays_), maxBookingDate_)

isStartDateBeforeOrEqualMaxDate(startDate_, minBookingDays_, maxBookingDate_) ==
    \/ maxBookingDate_ = Null
    \/ ~isAfter(addDays(startDate_, minBookingDays_ - 1), maxBookingDate_)

\* Faulty variant: the minimum-length test is left out.
isEndDateBeforeMinBookingDaysNever(startDate_, endDate_, minBookingDays_) == FALSE

\* Faulty variant: the minimum length is counted in nights, one day too long.
isEndDateBeforeMinBookingDaysStrict(startDate_, endDate_, minBookingDays_) ==
    isBefore(endDate_, addDays(startDate_, minBookingDays_))

isEndDateBeforeMinBookingDays(startDate_, endDate_, minBookingDays_) ==
    isBefore(endDate_, addDays(startDate_, minBookingDays_ - 1))

\* canSelectRange with isDateBlocked = disabledDatesByUser; a call site that
\* leaves exactMinBookingDays out passes FALSE.
canSelectRange(startDate_, endDate_, minBookingDays_, exactMinBookingDays_, minBookingDate_, maxBookingDate_) ==
    IF startDate_ # Null /\ minBookingDays_ = 1 /\ endDate_ = Null
       /\ ~disabledDatesByUser(startDate_)
    THEN TRUE
    ELSE IF \/ (startDate_ # Null /\ minBookingDays_ > 1 /\ endDate_ = Null
                /\ ~exactMinBookingDays_)
            \/ (startDate_ # Null /\ minBookingDays_ > 0 /\ exactMinBookingDays_
                /\ isStartDateAfterOrEqualMinDate(startDate_, minBookingDate_)
                /\ isStartDateBeforeOrEqualMaxDate(startDate_, minBookingDays_,
                                                   maxBookingDate_))
            \/ (startDate_ # Null /\ minBookingDays_ > 0 /\ exactMinBookingDays_
                /\ minBookingDate_ = Null /\ maxBookingDate_ = Null)
    THEN ~ \E d \in eachDay(startDate_, addDays(startDate_, minBookingDays_ - 1)) :
                disabledDatesByUser(d)
    ELSE IF startDate_ # Null /\ endDate_ # Null /\ ~exactMinBookingDays_
    THEN IF isEndDateBeforeMinBookingDays(startDate_, endDate_, minBookingDays_)
         THEN FALSE
         ELSE ~ \E d \in eachDay(startDate_, endDate_) : disabledDatesByUser(d)
    ELSE FALSE

isDateSelected(date) ==
    startDate # Null /\ endDate # Null /\ isWithinRange(date, startDate, endDate)

isFirstOrLastSelectedDate(date) ==
    \/ (startDate # Null /\ isSameDay(date, startDate))
    \/ (endDate # Null /\ isSameDay(date, endDate))

isDateBlocked(date) ==
    \/ (minBookingDate # Null /\ isBefore(date, minBookingDate))
    \/ (maxBookingDate # Null /\ isAfter(date, maxBookingDate))
    \/ (startDate # Null /\ endDate = Null /\ minBookingDays > 1
        /\ isWithinRange(date, startDate, addDays(startDate, minBookingDays - 2)))
    \/ disabledDatesByUser(date)

isDateFocused(date) == focusedDate # Null /\ isSameDay(date, focusedDate)

\* Faulty variant: the preview runs from startDate to hoveredDate in either
\* direction.
isDateHoveredEitherWay(date) ==
    LET from == IF hoveredDate < startDate THEN hoveredDate ELSE startDate
        to == IF hoveredDate < startDate THEN startDate ELSE hoveredDate
    IN  /\ startDate # Null /\ endDate = Null /\ hoveredDate # Null
        /\ isWithinRange(date, from, to)
        /\ ~ \E d \in eachDay(from, to) : disabledDatesByUser(d)

\* Faulty variant: the preview does not look at the blocked dates.
isDateHoveredThroughBlocked(date) ==
    /\ startDate # Null /\ endDate = Null /\ hoveredDate # Null
    /\ isWithinRange(date, startDate, hoveredDate)

isDateHovered(date) ==
    IF hoveredDate # Null /\ minBookingDays > 1 /\ exactMinBookingDays
       /\ isWithinRange(date, hoveredDate, addDays(hoveredDate, minBookingDays - 1))
    THEN ~ \E d \in eachDay(hoveredDate, addDays(hoveredDate, minBookingDays - 1)) :
                disabledDatesByUser(d)
    ELSE IF startDate # Null /\ endDate = Null /\ hoveredDate # Null
            /\ isWithinRange(date, startDate, addDays(startDate, minBookingDays - 1))
            /\ isSameDay(startDate, hoveredDate) /\ minBookingDays > 1
    THEN ~ \E d \in eachDay(startDate, addDays(startDate, minBookingDays - 1)) :
                disabledDatesByUser(d)
    ELSE IF startDate # Null /\ endDate = Null /\ hoveredDate # Null
    THEN /\ ~isBefore(hoveredDate, startDate)
         /\ isWithinRange(date, startDate, hoveredDate)
         /\ ~ \E d \in eachDay(startDate, hoveredDate) : disabledDatesByUser(d)
    ELSE FALSE

-----------------------------------------------------------------------------
(* useDatepicker: the handlers. Each action is one handler call followed by  *)
(* the re-render it causes; the parent passes what onDatesChange received    *)
(* back as the next startDate, endDate and focusedInput.                     *)

\* Faulty variant: the effect has no cleanup.
useEffectNoCleanup ==
    /\ listeners' = {Min(k + 1, MaxRenders) : k \in listeners} \cup {0}
    /\ UNCHANGED mounted

\* The effect of the hook, which has no dependency list: after every render
\* the cleanup of the effect before removes the handleKeyDown it added, and
\* the handleKeyDown of the new render is added.
useEffect ==
    /\ listeners' = {Min(k + 1, MaxRenders) : k \in listeners \ {0}} \cup {0}
    /\ UNCHANGED mounted

\* Faulty variant: the emission leaves the focused input as it is.
EmitKeepingFocus(startDate_, endDate_, focusedInput_) ==
    /\ onDatesChange' = <<[startDate |-> startDate_, endDate |-> endDate_,
                           focusedInput |-> focusedInput]>>
    /\ startDate' = startDate_
    /\ endDate' = endDate_
    /\ focusedInput' = focusedInput

Emit(startDate_, endDate_, focusedInput_) ==
    /\ onDatesChange' = <<[startDate |-> startDate_, endDate |-> endDate_,
                           focusedInput |-> focusedInput_]>>
    /\ startDate' = startDate_
    /\ endDate' = endDate_
    /\ focusedInput' = focusedInput_

NoEmit ==
    /\ onDatesChange' = <<>>
    /\ UNCHANGED selection

onDateFocus(date) ==
    /\ call' = [fn |-> "onDateFocus", date |-> date, numYears |-> 0]
    /\ useEffect
    /\ UNCHANGED components
    /\ focusedDate' = date
    /\ activeMonths' =
            IF focusedDate = Null \/ (focusedDate # Null /\ ~isSameMonth(date, focusedDate))
            THEN getInitialMonths(numberOfMonths, date)
            ELSE activeMonths
    /\ NoEmit
    /\ UNCHANGED <<config, hoveredDate>>

ArrowKeys == {"ArrowRight", "ArrowLeft", "ArrowDown", "ArrowUp"}

handleKeyDown(key) ==
    /\ call' = [fn |-> "handleKeyDown", date |-> Null, numYears |-> 0, key |-> key]
    /\ useEffect
    /\ UNCHANGED components
    /\ IF key \in ArrowKeys /\ focusedDate = Null
       THEN LET activeMonth == activeMonths[1]
            IN  /\ focusedDate' = activeMonth.date
                /\ activeMonths' = getInitialMonths(numberOfMonths, activeMonth.date)
       ELSE UNCHANGED <<focusedDate, activeMonths>>
    /\ NoEmit
    /\ UNCHANGED <<config, hoveredDate>>

\* Faulty variant: the reset keeps the focused input.
onResetDatesKeepFocus ==
    /\ call' = [fn |-> "onResetDates", date |-> Null, numYears |-> 0]
    /\ useEffect
    /\ UNCHANGED components
    /\ Emit(Null, Null, focusedInput)
    /\ UNCHANGED <<config, hookState>>

onResetDates ==
    /\ call' = [fn |-> "onResetDates", date |-> Null, numYears |-> 0]
    /\ useEffect
    /\ UNCHANGED components
    /\ Emit(Null, Null, START_DATE)
    /\ UNCHANGED <<config, hookState>>

\* Faulty variant: the exact commit does not test exactMinBookingDays.
ExactCommitAnyMode(date) ==
    /\ focusedInput = END_DATE \/ focusedInput = START_DATE
    /\ minBookingDays > 0
    /\ canSelectRange(date, Null, minBookingDays, exactMinBookingDays, minBookingDate, maxBookingDate)

\* The five guards of onDateSelect, in the order the handler tries them.
ExactCommit(date) ==
    /\ focusedInput = END_DATE \/ focusedInput = START_DATE
    /\ minBookingDays > 0
    /\ exactMinBookingDays
    /\ canSelectRange(date, Null, minBookingDays, exactMinBookingDays,
                      minBookingDate, maxBookingDate)

\* Faulty variant: the redirect handles only a start pick after endDate.
RedirectStartOnly(date) ==
    /\ focusedInput = START_DATE /\ endDate # Null /\ isAfter(date, endDate)
    /\ ~exactMinBookingDays
    /\ canSelectRange(date, Null, minBookingDays, FALSE, Null, Null)

Redirect(date) ==
    /\ \/ (focusedInput = END_DATE /\ startDate # Null /\ isBefore(date, startDate))
       \/ (focusedInput = START_DATE /\ endDate # Null /\ isAfter(date, endDate))
    /\ ~exactMinBookingDays
    /\ canSelectRange(date, Null, minBookingDays, FALSE, Null, Null)

\* Faulty variant: the start pick keeps the end only for a date before it.
StartKeepingEndStrict(date) ==
    /\ focusedInput = START_DATE
    /\ ~exactMinBookingDays
    /\ endDate # Null /\ isBefore(date, endDate)
    /\ canSelectRange(date, endDate, minBookingDays, FALSE, Null, Null)

StartKeepingEnd(date) ==
    /\ focusedInput = START_DATE
    /\ ~exactMinBookingDays
    /\ canSelectRange(date, endDate, minBookingDays, FALSE, Null, Null)

\* Faulty variant: the start pick does not test the focused input.
StartNoEndAnyFocus(date) ==
    /\ ~exactMinBookingDays
    /\ canSelectRange(date, Null, minBookingDays, FALSE, Null, Null)

\* Faulty variant: the open range is tested up to date + minBookingDays - 2.
StartNoEndShortRoom(date) ==
    /\ focusedInput = START_DATE
    /\ ~exactMinBookingDays
    /\ ~ \E d \in eachDay(date, addDays(date, minBookingDays - 2)) :
            disabledDatesByUser(d)

\* Faulty variant: the start pick with no end is open to exact mode.
StartNoEndAnyMode(date) ==
    /\ focusedInput = START_DATE
    /\ canSelectRange(date, Null, minBookingDays, FALSE, Null, Null)

StartNoEnd(date) ==
    /\ focusedInput = START_DATE
    /\ ~exactMinBookingDays
    /\ canSelectRange(date, Null, minBookingDays, FALSE, Null, Null)

\* Faulty variant: the end pick does not test the minimum length.
EndPickAnyLength(date) ==
    /\ focusedInput = END_DATE
    /\ startDate # Null
    /\ ~isBefore(date, startDate)
    /\ ~exactMinBookingDays
    /\ ~ \E d \in eachDay(startDate, date) : disabledDatesByUser(d)

\* Faulty variant: the end pick tests the end date alone.
EndPickEndOnly(date) ==
    /\ focusedInput = END_DATE
    /\ startDate # Null
    /\ ~isBefore(date, startDate)
    /\ ~exactMinBookingDays
    /\ ~disabledDatesByUser(date)

EndPick(date) ==
    /\ focusedInput = END_DATE
    /\ startDate # Null
    /\ ~isBefore(date, startDate)
    /\ ~exactMinBookingDays
    /\ canSelectRange(startDate, date, minBookingDays, FALSE, Null, Null)

\* Faulty variant: the window is re-seeded whatever the focused input.
onDateSelectReseeding(date) ==
    /\ call' = [fn |-> "onDateSelect", date |-> date, numYears |-> 0]
    /\ useEffect
    /\ UNCHANGED components
    /\ IF ExactCommit(date)
       THEN Emit(date, addDays(date, minBookingDays - 1), NoInput)
       ELSE IF Redirect(date)
       THEN Emit(date, Null, END_DATE)
       ELSE IF StartKeepingEnd(date)
       THEN Emit(date, endDate, END_DATE)
       ELSE IF StartNoEnd(date)
       THEN Emit(date, Null, END_DATE)
       ELSE IF EndPick(date)
       THEN Emit(startDate, date, NoInput)
       ELSE NoEmit
    /\ activeMonths' =
            IF focusedDate = Null \/ ~isSameMonth(date, focusedDate)
            THEN getInitialMonths(numberOfMonths, date)
            ELSE activeMonths
    /\ UNCHANGED <<config, hoveredDate, focusedDate>>

onDateSelect(date) ==
    /\ call' = [fn |-> "onDateSelect", date |-> date, numYears |-> 0]
    /\ useEffect
    /\ UNCHANGED components
    /\ IF ExactCommit(date)
       THEN Emit(date, addDays(date, minBookingDays - 1), NoInput)
       ELSE IF Redirect(date)
       THEN Emit(date, Null, END_DATE)
       ELSE IF StartKeepingEnd(date)
       THEN Emit(date, endDate, END_DATE)
       ELSE IF StartNoEnd(date)
       THEN Emit(date, Null, END_DATE)
       ELSE IF EndPick(date)
       THEN Emit(startDate, date, NoInput)
       ELSE NoEmit
    /\ activeMonths' =
            IF /\ focusedInput # END_DATE
               /\ (focusedDate = Null
                   \/ (focusedDate # Null /\ ~isSameMonth(date, focusedDate)))
            THEN getInitialMonths(numberOfMonths, date)
            ELSE activeMonths
    /\ UNCHANGED <<config, hoveredDate, focusedDate>>

\* Faulty variant: a rejected hover keeps the date stored before.
onDateHoverSticky(date) ==
    /\ call' = [fn |-> "onDateHover", date |-> date, numYears |-> 0]
    /\ useEffect
    /\ UNCHANGED components
    /\ hoveredDate' = IF date # Null /\ ~isDateBlocked(date) THEN date ELSE hoveredDate
    /\ NoEmit
    /\ UNCHANGED <<config, activeMonths, focusedDate>>

\* Faulty variant: the start date is stored only for a minimum stay of more
\* than one day.
onDateHoverStartNeedsStay(date) ==
    /\ call' = [fn |-> "onDateHover", date |-> date, numYears |-> 0]
    /\ useEffect
    /\ UNCHANGED components
    /\ hoveredDate' =
            IF date # Null /\ date = startDate /\ minBookingDays > 1 THEN date ELSE Null
    /\ NoEmit
    /\ UNCHANGED <<config, activeMonths, focusedDate>>

\* Faulty variant: hovering a date also moves the focus to it.
onDateHoverFocusing(date) ==
    /\ call' = [fn |-> "onDateHover", date |-> date, numYears |-> 0]
    /\ useEffect
    /\ UNCHANGED components
    /\ hoveredDate' = date
    /\ focusedDate' = date
    /\ NoEmit
    /\ UNCHANGED <<config, activeMonths>>

onDateHover(date) ==
    /\ call' = [fn |-> "onDateHover", date |-> date, numYears |-> 0]
    /\ useEffect
    /\ UNCHANGED components
    /\ IF date = Null
       THEN hoveredDate' = Null
       ELSE LET isNotBlocked ==
                    ~isDateBlocked(date) \/ (startDate # Null /\ isSameDay(date, startDate))
                isHoveredDateAfterOrEqualMinDate ==
                    minBookingDate = Null
                    \/ ~isBefore(date, addDays(minBookingDate, -1))
                isHoveredDateBeforeOrEqualMaxDate ==
                    maxBookingDate = Null \/ ~isAfter(date, maxBookingDate)
                potentialEndDate == addDays(date, minBookingDays - 1)
                isPotentialEndDateAfterOrEqualMinDate ==
                    minBookingDate = Null \/ ~isBefore(potentialEndDate, minBookingDate)
                isPotentialEndDateBeforeOrEqualMaxDate ==
                    maxBookingDate = Null \/ ~isAfter(potentialEndDate, maxBookingDate)
                isExactAndInRange ==
                    /\ exactMinBookingDays
                    /\ minBookingDays > 1
                    /\ isHoveredDateAfterOrEqualMinDate
                    /\ isHoveredDateBeforeOrEqualMaxDate
                    /\ isPotentialEndDateAfterOrEqualMinDate
                    /\ isPotentialEndDateBeforeOrEqualMaxDate
                isInRange ==
                    /\ startDate # Null
                    /\ endDate = Null
                    /\ ~exactMinBookingDays
                    /\ isHoveredDateAfterOrEqualMinDate
                    /\ isHoveredDateBeforeOrEqualMaxDate
                isMinBookingDaysInRange ==
                    IF minBookingDays > 1 /\ startDate # Null
                    THEN isWithinRange(date, startDate,
                                       addDays(startDate, minBookingDays - 2))
                    ELSE TRUE
                isStartDateHoveredAndInRange ==
                    startDate # Null /\ isSameDay(date, startDate)
                    /\ isMinBookingDaysInRange
            IN  IF isNotBlocked
                   /\ (isExactAndInRange \/ isInRange \/ isStartDateHoveredAndInRange)
                THEN hoveredDate' = date
                ELSE IF hoveredDate # Null
                THEN hoveredDate' = Null
                ELSE UNCHANGED hoveredDate
    /\ NoEmit
    /\ UNCHANGED <<config, activeMonths, focusedDate>>

goToPreviousMonths ==
    /\ call' = [fn |-> "goToPreviousMonths", date |-> Null, numYears |-> 0]
    /\ useEffect
    /\ UNCHANGED components
    /\ activeMonths' = getNextActiveMonth(activeMonths, numberOfMonths, -1)
    /\ focusedDate' = Null
    /\ NoEmit
    /\ UNCHANGED <<config, hoveredDate>>

goToNextMonths ==
    /\ call' = [fn |-> "goToNextMonths", date |-> Null, numYears |-> 0]
    /\ useEffect
    /\ UNCHANGED components
    /\ activeMonths' = getNextActiveMonth(activeMonths, numberOfMonths, 1)
    /\ focusedDate' = Null
    /\ NoEmit
    /\ UNCHANGED <<config, hoveredDate>>

goToPreviousYear(numYears) ==
    /\ call' = [fn |-> "goToPreviousYear", date |-> Null, numYears |-> numYears]
    /\ useEffect
    /\ UNCHANGED components
    /\ activeMonths' = getNextActiveMonth(activeMonths, numberOfMonths,
                                          -(numYears * 12 - numberOfMonths + 1))
    /\ focusedDate' = Null
    /\ NoEmit
    /\ UNCHANGED <<config, hoveredDate>>

\* Faulty variant: the focused date survives the navigation.
goToNextYearKeepingFocus(numYears) ==
    /\ call' = [fn |-> "goToNextYear", date |-> Null, numYears |-> numYears]
    /\ useEffect
    /\ UNCHANGED components
    /\ activeMonths' = getNextActiveMonth(activeMonths, numberOfMonths,
                                          numYears * 12 - numberOfMonths + 1)
    /\ NoEmit
    /\ UNCHANGED <<config, hoveredDate, focusedDate>>

goToNextYear(numYears) ==
    /\ call' = [fn |-> "goToNextYear", date |-> Null, numYears |-> numYears]
    /\ useEffect
    /\ UNCHANGED components
    /\ activeMonths' = getNextActiveMonth(activeMonths, numberOfMonths,
                                          numYears * 12 - numberOfMonths + 1)
    /\ focusedDate' = Null
    /\ NoEmit
    /\ UNCHANGED <<config, hoveredDate>>

-----------------------------------------------------------------------------
(* Specifications *)

\* The dates the environment clicks, hovers and focuses: 30 January 2024 to
\* the first days of February, so that two calendar months are involved.
Days == Today .. (Today + NumDays - 1)
OptionalDays == {Null} \cup Days

\* The months a navigation may show: the model stops navigating at the edge.
MonthsNear == (2024 * 12) .. (2025 * 12 + 2)
MonthsFar == (2023 * 12) .. (2025 * 12 + 5)
Within(months, range) ==
    \A i \in 1 .. Len(months) : months[i].year * 12 + months[i].month \in range

DefaultNumberOfMonths == 2
DefaultMinBookingDays == 1

\* useState initialisers of the hook, at mount.
Mount ==
    /\ activeMonths =
            IF startDate # Null
            THEN getInitialMonths(numberOfMonths, startDate)
            ELSE getInitialMonths(numberOfMonths, initialVisibleMonth)
    /\ hoveredDate = Null
    /\ focusedDate = startDate
    /\ onDatesChange = <<>>
    /\ call = [fn |-> "mount", date |-> Null, numYears |-> 0]
    /\ mounted = TRUE
    /\ listeners = {0}

\* The hook used on its own: no Month and no Input component is rendered.
InputIds == {START_DATE, END_DATE}
NoComponents ==
    /\ useMonthProps = [year |-> 0, month |-> 0, firstDayOfWeek |-> 1]
    /\ days = <<>>
    /\ inputs = [id \in InputIds |->
                    [value |-> <<>>, typed |-> <<>>, cancelled |-> FALSE, timers |-> <<>>]]

\* The caller blocks at most MaxBlocked dates, each through unavailableDates
\* or through its isDateBlocked predicate.
BlockedChoices ==
    {bl \in (SUBSET Days) \X (SUBSET Days) :
        Cardinality(bl[1]) + Cardinality(bl[2]) <= MaxBlocked}

\* The selections a parent can pass at mount: any two dates in order.
ValidSelection ==
    /\ startDate \in OptionalDays
    /\ endDate \in OptionalDays
    /\ startDate # Null /\ endDate # Null => startDate <= endDate
    /\ focusedInput \in {START_DATE, END_DATE, NoInput}

\* Spec: every handler, from the empty selection.
Init ==
    /\ startDate = Null /\ endDate = Null /\ focusedInput = START_DATE
    /\ minBookingDate = Null /\ maxBookingDate = Null
    /\ minBookingDays \in 1 .. MaxMinBookingDays
    /\ exactMinBookingDays \in BOOLEAN
    /\ numberOfMonths = DefaultNumberOfMonths
    /\ initialVisibleMonth = Null
    /\ unavailableDates \in {{}, {Today + 1}}
    /\ isDateBlockedProps = {}
    /\ Mount
    /\ NoComponents

Navigate(range) ==
    /\ \/ goToPreviousMonths
       \/ goToNextMonths
       \/ \E numYears \in 1 .. MaxNumYears : goToPreviousYear(numYears)
       \/ \E numYears \in 1 .. MaxNumYears : goToNextYear(numYears)
    /\ Within(activeMonths', range)

Next ==
    \/ \E date \in Days : onDateSelect(date)
    \/ onResetDates
    \/ \E date \in OptionalDays : onDateHover(date)
    \/ \E date \in Days : onDateFocus(date)
    \/ \E key \in {"ArrowLeft", "Enter"} : handleKeyDown(key)
    \/ Navigate(MonthsNear)

Spec == Init /\ [][Next]_vars

\* SpecSelect: the selection machine alone, from every selection the parent
\* can pass and every booking configuration.
InitSelect ==
    /\ ValidSelection
    /\ minBookingDate \in {Null, Today + 2}
    /\ maxBookingDate \in {Null, Today + NumDays - 2}
    /\ minBookingDate # Null /\ maxBookingDate # Null => minBookingDate <= maxBookingDate
    /\ minBookingDays \in 1 .. MaxMinBookingDays
    /\ exactMinBookingDays \in BOOLEAN
    /\ numberOfMonths = DefaultNumberOfMonths
    /\ initialVisibleMonth = Null
    /\ \E bl \in BlockedChoices : unavailableDates = bl[1] /\ isDateBlockedProps = bl[2]
    /\ Mount
    /\ NoComponents

NextSelect ==
    \/ \E date \in Days : onDateSelect(date)
    \/ onResetDates

SpecSelect == InitSelect /\ [][NextSelect]_vars

\* SpecMonths: the month window, for every numberOfMonths.
InitMonths ==
    /\ startDate = Null /\ endDate = Null /\ focusedInput = START_DATE
    /\ minBookingDate = Null /\ maxBookingDate = Null
    /\ minBookingDays = DefaultMinBookingDays
    /\ exactMinBookingDays = FALSE
    /\ numberOfMonths \in (1 .. 2) \cup (12 .. MaxNumberOfMonths)
    /\ initialVisibleMonth \in {Null, Today + NumDays - 1}
    /\ unavailableDates = {} /\ isDateBlockedProps = {}
    /\ Mount
    /\ NoComponents

NextMonths ==
    \/ Navigate(MonthsFar)
    \/ \E date \in Days : onDateFocus(date)
    \/ \E date \in Days : onDateSelect(date)
    \/ \E key \in {"ArrowLeft", "Enter"} : handleKeyDown(key)

SpecMonths == InitMonths /\ [][NextMonths]_vars

\* SpecGrid: useMonth rendered with every month of the grid years and every
\* first day of the week.
GridYears == 2023 .. (2023 + NumGridYears - 1)

useMonth(year, month, firstDayOfWeek) ==
    /\ call' = [fn |-> "useMonth", date |-> Null, numYears |-> 0]
    /\ useMonthProps' = [year |-> year, month |-> month, firstDayOfWeek |-> firstDayOfWeek]
    /\ days' = getDays(year, month, firstDayOfWeek)
    /\ NoEmit
    /\ UNCHANGED <<config, hookState, lifecycle, inputs>>

InitGrid ==
    /\ startDate = Null /\ endDate = Null /\ focusedInput = START_DATE
    /\ minBookingDate = Null /\ maxBookingDate = Null
    /\ minBookingDays = DefaultMinBookingDays
    /\ exactMinBookingDays = FALSE
    /\ numberOfMonths = DefaultNumberOfMonths
    /\ initialVisibleMonth = Null
    /\ unavailableDates = {} /\ isDateBlockedProps = {}
    /\ Mount
    /\ \E year \in GridYears, month \in 0 .. 11, firstDayOfWeek \in 0 .. 6 :
            /\ useMonthProps = [year |-> year, month |-> month,
                                firstDayOfWeek |-> firstDayOfWeek]
            /\ days = getDays(year, month, firstDayOfWeek)
    /\ inputs = [id \in InputIds |->
                    [value |-> <<>>, typed |-> <<>>, cancelled |-> FALSE, timers |-> <<>>]]

NextGrid ==
    \E year \in GridYears, month \in 0 .. 11, firstDayOfWeek \in 0 .. 6 :
        useMonth(year, month, firstDayOfWeek)

SpecGrid == InitGrid /\ [][NextGrid]_vars

\* SpecRender: renders, batches and the listener. Two handler calls made
\* before the component renders again both run in the closure of the same
\* render: both read the props and the useState values of that render, and a
\* later setState call of the same cell replaces an earlier one. The parent
\* keeps what the last onDatesChange call passed.
emitted(date) ==
    LET to(startDate_, endDate_, focusedInput_) ==
            <<[startDate |-> startDate_, endDate |-> endDate_,
               focusedInput |-> focusedInput_]>>
    IN  IF ExactCommit(date)
        THEN to(date, addDays(date, minBookingDays - 1), NoInput)
        ELSE IF Redirect(date)
        THEN to(date, Null, END_DATE)
        ELSE IF StartKeepingEnd(date)
        THEN to(date, endDate, END_DATE)
        ELSE IF StartNoEnd(date)
        THEN to(date, Null, END_DATE)
        ELSE IF EndPick(date)
        THEN to(startDate, date, NoInput)
        ELSE <<>>

onDateSelectTwice(first, second) ==
    /\ call' = [fn |-> "onDateSelectTwice", date |-> second, numYears |-> 0,
                first |-> first]
    /\ useEffect
    /\ UNCHANGED components
    /\ LET calls == emitted(first) \o emitted(second)
       IN  /\ onDatesChange' = calls
           /\ IF calls = <<>>
              THEN UNCHANGED selection
              ELSE /\ startDate' = calls[Len(calls)].startDate
                   /\ endDate' = calls[Len(calls)].endDate
                   /\ focusedInput' = calls[Len(calls)].focusedInput
    /\ LET reseeds(date) ==
               /\ focusedInput # END_DATE
               /\ (focusedDate = Null
                   \/ (focusedDate # Null /\ ~isSameMonth(date, focusedDate)))
       IN  activeMonths' =
               IF reseeds(second) THEN getInitialMonths(numberOfMonths, second)
               ELSE IF reseeds(first) THEN getInitialMonths(numberOfMonths, first)
               ELSE activeMonths
    /\ UNCHANGED <<config, hoveredDate, focusedDate>>

goToNextMonthsTwice ==
    /\ call' = [fn |-> "goToNextMonthsTwice", date |-> Null, numYears |-> 0]
    /\ useEffect
    /\ UNCHANGED components
    /\ activeMonths' = getNextActiveMonth(activeMonths, numberOfMonths, 1)
    /\ focusedDate' = Null
    /\ NoEmit
    /\ UNCHANGED <<config, hoveredDate>>

\* The parent renders the component again.
render ==
    /\ mounted
    /\ call' = [fn |-> "render", date |-> Null, numYears |-> 0]
    /\ useEffect
    /\ UNCHANGED components
    /\ NoEmit
    /\ UNCHANGED <<config, hookState>>

\* The cleanup of the last effect runs.
unmount ==
    /\ mounted
    /\ call' = [fn |-> "unmount", date |-> Null, numYears |-> 0]
    /\ mounted' = FALSE
    /\ listeners' = listeners \ {0}
    /\ UNCHANGED components
    /\ NoEmit
    /\ UNCHANGED <<config, hookState>>

NextRender ==
    \/ mounted /\ \E first, second \in Days : onDateSelectTwice(first, second)
    \/ mounted /\ goToNextMonthsTwice /\ Within(activeMonths', MonthsNear)
    \/ mounted /\ \E date \in Days : onDateSelect(date)
    \/ mounted /\ goToNextMonths /\ Within(activeMonths', MonthsNear)
    \/ mounted /\ goToPreviousMonths /\ Within(activeMonths', MonthsNear)
    \/ 0 \in listeners /\ \E key \in {"ArrowLeft", "Enter"} : handleKeyDown(key)
    \/ render
    \/ unmount

SpecRender == Init /\ [][NextRender]_vars

\* SpecInput: DateRangeInput with its two Input components. A text is the
\* sequence of the numbers typed for MM/dd/yyyy (the default displayFormat);
\* <<>> is the empty text. The Datepicker, and with it the hook, is rendered
\* while focusedInput is not null; the parent passes what onFocusChange
\* and onDatesChange received back as props.
format(date) ==
    IF date = Null THEN <<>> ELSE <<getMonth(date) + 1, getDate(date), getFullYear(date)>>

\* date-fns parse: Null stands for Invalid Date.
parse(text) ==
    IF /\ Len(text) = 3
       /\ text[1] \in 1 .. 12
       /\ text[3] * 12 \in CalendarMonths
       /\ text[2] \in 1 .. getDaysInMonth(text[3], text[1] - 1)
    THEN DateOf(text[3], text[1] - 1, text[2])
    ELSE Null

\* The texts typed: the first NumTypedDays days from today, and 02/30/2024,
\* which is no date.
Texts == {format(Today + i) : i \in 0 .. (NumTypedDays - 1)} \cup {<<2, 30, 2024>>}

\* Faulty variant: the pending timer is left running.
clearTimeoutNever(timers) == timers

\* clearTimeout(timer.current): timer.current is the timer created last, which
\* is the last of the pending ones unless it has fired.
clearTimeout(timers) ==
    IF timers = <<>> THEN <<>> ELSE SubSeq(timers, 1, Len(timers) - 1)

\* The value props of the two inputs, and the effect that copies a changed
\* value prop into the text shown.
valueProp(id, startDate_, endDate_) ==
    IF id = START_DATE THEN format(startDate_) ELSE format(endDate_)

\* onClick of an input: onFocusChange(START_DATE) for the start input,
\* onFocusChange(startDate ? END_DATE : START_DATE) for the end input.
onClick(id) ==
    IF id = START_DATE THEN START_DATE
    ELSE IF startDate # Null THEN END_DATE ELSE START_DATE

\* The state of the hook when the Datepicker is rendered for the first time
\* or again after having been closed.
Rendered(was, is, useStateCell, initial) ==
    IF was = NoInput /\ is # NoInput THEN initial ELSE useStateCell

\* A keystroke in the input id: the text becomes the value shown, the pending
\* timer is cleared and a timer for this text is started.
onChange(id, text) ==
    /\ call' = [fn |-> "onChange", date |-> Null, numYears |-> 0, id |-> id, text |-> text]
    /\ inputs' = [inputs EXCEPT ![id] =
                    [value |-> text,
                     typed |-> text,
                     cancelled |-> @.timers # <<>>,
                     timers |-> Append(clearTimeout(@.timers), text)]]
    /\ NoEmit
    /\ UNCHANGED <<config, hookState, lifecycle, useMonthProps, days>>

\* The oldest pending timer of the input id fires: onClick(), then the text
\* of its keystroke is parsed and a valid date is passed to the onDateSelect
\* of the Datepicker, if one is rendered.
timeout(id) ==
    /\ inputs[id].timers # <<>>
    /\ LET text == Head(inputs[id].timers)
           date == parse(text)
           selects == date # Null /\ focusedInput # NoInput
           calls == IF selects THEN emitted(date) ELSE <<>>
           startDate_ == IF calls = <<>> THEN startDate ELSE calls[1].startDate
           endDate_ == IF calls = <<>> THEN endDate ELSE calls[1].endDate
           focusedInput_ == IF calls = <<>> THEN onClick(id) ELSE calls[1].focusedInput
       IN  /\ call' = [fn |-> "timeout", date |-> date, numYears |-> 0, id |-> id,
                        text |-> text, cancelled |-> inputs[id].cancelled]
           /\ onDatesChange' = calls
           /\ startDate' = startDate_
           /\ endDate' = endDate_
           /\ focusedInput' = focusedInput_
           /\ activeMonths' =
                   Rendered(focusedInput, focusedInput_,
                       IF /\ selects
                          /\ focusedInput # END_DATE
                          /\ (focusedDate = Null
                              \/ (focusedDate # Null /\ ~isSameMonth(date, focusedDate)))
                       THEN getInitialMonths(numberOfMonths, date)
                       ELSE activeMonths,
                       IF startDate_ # Null
                       THEN getInitialMonths(numberOfMonths, startDate_)
                       ELSE getInitialMonths(numberOfMonths, initialVisibleMonth))
           /\ hoveredDate' = Rendered(focusedInput, focusedInput_, hoveredDate, Null)
           /\ focusedDate' = Rendered(focusedInput, focusedInput_, focusedDate, startDate_)
           /\ mounted' = (focusedInput_ # NoInput)
           /\ listeners' = IF focusedInput_ # NoInput THEN {0} ELSE {}
           /\ inputs' = [i \in InputIds |->
                   [value |-> IF valueProp(i, startDate_, endDate_)
                                    # valueProp(i, startDate, endDate)
                              THEN valueProp(i, startDate_, endDate_)
                              ELSE inputs[i].value,
                    typed |-> IF i = id THEN <<>> ELSE inputs[i].typed,
                    cancelled |-> IF i = id THEN FALSE ELSE inputs[i].cancelled,
                    timers |-> IF i = id THEN Tail(inputs[i].timers)
                               ELSE inputs[i].timers]]
    /\ UNCHANGED <<config, useMonthProps, days>>

\* Datepicker onClose: onFocusChange(null).
onClose ==
    /\ focusedInput # NoInput
    /\ call' = [fn |-> "onClose", date |-> Null, numYears |-> 0]
    /\ focusedInput' = NoInput
    /\ onDatesChange' = <<>>
    /\ mounted' = FALSE
    /\ listeners' = {}
    /\ UNCHANGED <<startDate, endDate, config, hookState, components>>

InitInput ==
    /\ startDate = Null /\ endDate = Null
    /\ focusedInput \in {NoInput, START_DATE}
    /\ minBookingDate = Null /\ maxBookingDate = Null
    /\ minBookingDays = DefaultMinBookingDays
    /\ exactMinBookingDays = FALSE
    /\ numberOfMonths = DefaultNumberOfMonths
    /\ initialVisibleMonth = Null
    /\ unavailableDates = {} /\ isDateBlockedProps = {}
    /\ activeMonths = getInitialMonths(numberOfMonths, initialVisibleMonth)
    /\ hoveredDate = Null
    /\ focusedDate = startDate
    /\ onDatesChange = <<>>
    /\ call = [fn |-> "mount", date |-> Null, numYears |-> 0]
    /\ mounted = (focusedInput # NoInput)
    /\ listeners = IF focusedInput # NoInput THEN {0} ELSE {}
    /\ useMonthProps = [year |-> 0, month |-> 0, firstDayOfWeek |-> 1]
    /\ days = <<>>
    /\ inputs = [id \in InputIds |->
                    [value |-> <<>>, typed |-> <<>>, cancelled |-> FALSE,
                     timers |-> <<>>]]

NextInput ==
    \/ \E id \in InputIds, text \in Texts : onChange(id, text)
    \/ \E id \in InputIds : timeout(id)
    \/ onClose

SpecInput == InitInput /\ [][NextInput]_vars

-----------------------------------------------------------------------------
(* Properties of the selection machine (SpecSelect) *)

\* The dates the caller blocks, by list or by predicate.
Blocked == unavailableDates \cup isDateBlockedProps
\* x lies within [minBookingDate, maxBookingDate].
InBounds(x) ==
    /\ minBookingDate = Null \/ x >= minBookingDate
    /\ maxBookingDate = Null \/ x <= maxBookingDate
\* The step is the call onDateSelect(date).
Click(date) == call'.fn = "onDateSelect" /\ call'.date = date
Emission(startDate_, endDate_, focusedInput_) ==
    <<[startDate |-> startDate_, endDate |-> endDate_, focusedInput |-> focusedInput_]>>
Rejected == onDatesChange' = <<>> /\ UNCHANGED selection

\* C1: whenever startDate and endDate are both set, startDate is not after
\* endDate, in every state reached from an ordered selection.
C1_Ordering == (startDate # Null /\ endDate # Null) => startDate <= endDate

\* A start pick that kept the existing end date.
C1_Witness ==
    /\ call.fn = "onDateSelect"
    /\ onDatesChange = Emission(call.date, endDate, END_DATE)
    /\ endDate # Null

\* C2: onResetDates calls onDatesChange exactly once, with startDate null,
\* endDate null and focusedInput START, whatever the state before.
C2_Reset ==
    call.fn = "onResetDates" =>
        /\ onDatesChange = Emission(Null, Null, START_DATE)
        /\ selection = <<Null, Null, START_DATE>>

C2_Witness ==
    /\ call.fn = "onResetDates"
    /\ exactMinBookingDays
    /\ Len(onDatesChange) = 1

\* C3: onDateSelect on a date of unavailableDates, or one the caller's
\* predicate blocks, emits nothing and leaves the selection as it was.
C3_BlockedClick ==
    [][\A date \in Days : Click(date) /\ date \in Blocked => Rejected]_vars

C3_Witness ==
    /\ call.fn = "onDateSelect"
    /\ call.date \in isDateBlockedProps
    /\ focusedInput = START_DATE
    /\ onDatesChange = <<>>

\* C4: in exact mode with focusedInput START or END, onDateSelect(D) with
\* every date of [D, D + minBookingDays - 1] unblocked and within the bounds
\* emits startDate = D, endDate = D + minBookingDays - 1, focusedInput = NONE.
C4_ExactCommit ==
    [][\A date \in Days :
        (/\ Click(date)
         /\ exactMinBookingDays
         /\ focusedInput \in {START_DATE, END_DATE}
         /\ \A x \in date .. (date + minBookingDays - 1) :
                x \notin Blocked /\ InBounds(x))
        => /\ onDatesChange' = Emission(date, date + minBookingDays - 1, NoInput)
           /\ selection' = <<date, date + minBookingDays - 1, NoInput>>]_vars

\* A commit of more than one day whose last day is maxBookingDate.
C4_Witness ==
    /\ call.fn = "onDateSelect"
    /\ exactMinBookingDays
    /\ minBookingDays > 1
    /\ onDatesChange = Emission(call.date, call.date + minBookingDays - 1, NoInput)
    /\ endDate = maxBookingDate

\* C5: not in exact mode, for D1 before D2 with [D1, D2] unblocked and
\* D2 >= D1 + minBookingDays - 1: onDateSelect(D1) on the empty selection with
\* focusedInput START gives (D1, null, END), and onDateSelect(D2) on that
\* gives (D1, D2, NONE).
C5_TwoClicks ==
    [][\A d1, d2 \in Days :
        (/\ ~exactMinBookingDays
         /\ d1 < d2
         /\ d2 >= d1 + minBookingDays - 1
         /\ \A x \in d1 .. d2 : x \notin Blocked)
        => /\ Click(d1) /\ selection = <<Null, Null, START_DATE>>
                => selection' = <<d1, Null, END_DATE>>
           /\ Click(d2) /\ selection = <<d1, Null, END_DATE>>
                => selection' = <<d1, d2, NoInput>>]_vars

\* The second click completed a range of exactly the minimum length.
C5_Witness ==
    /\ call.fn = "onDateSelect"
    /\ ~exactMinBookingDays
    /\ minBookingDays > 1
    /\ startDate # Null
    /\ onDatesChange = Emission(startDate, call.date, NoInput)
    /\ call.date = startDate + minBookingDays - 1

\* The state a completing click leaves: onDateSelect emitted the range with
\* focusedInput NONE, not in exact mode.
CompletedByClick ==
    /\ call.fn = "onDateSelect"
    /\ ~exactMinBookingDays
    /\ startDate # Null /\ endDate # Null
    /\ onDatesChange = Emission(startDate, endDate, NoInput)

\* C6 as stated: after a range was completed by a click, onDateSelect(D3)
\* on an unblocked D3 resets the selection to (D3, null, END).
C6_ThirdClickResets ==
    [][\A date \in Days :
        CompletedByClick /\ Click(date) /\ date \notin Blocked
        => selection' = <<date, Null, END_DATE>>]_vars

\* C6 amended: after a range was completed by a click, onDateSelect(D3)
\* emits nothing and the selection stays (D1, D2, NONE).
C6_ThirdClickIgnored ==
    [][\A date \in Days :
        CompletedByClick /\ Click(date) /\ date \notin Blocked => Rejected]_vars

\* A click on an unblocked date that found a complete range and did nothing.
C6_Witness ==
    /\ call.fn = "onDateSelect"
    /\ call.date \notin Blocked
    /\ ~exactMinBookingDays
    /\ startDate # Null /\ endDate # Null /\ startDate < endDate
    /\ focusedInput = NoInput
    /\ onDatesChange = <<>>

\* C7: with focusedInput START or END, onDateSelect on a date before
\* minBookingDate emits nothing and leaves the selection as it was.
C7_LowerBound ==
    [][\A date \in Days :
        (/\ Click(date)
         /\ focusedInput \in {START_DATE, END_DATE}
         /\ minBookingDate # Null
         /\ date < minBookingDate)
        => Rejected]_vars

\* C8: onDateSelect on a date after maxBookingDate, and an exact-length
\* commit whose last day is after maxBookingDate, emit nothing and leave the
\* selection as it was.
C8_UpperBound ==
    [][\A date \in Days :
        (/\ Click(date)
         /\ focusedInput \in {START_DATE, END_DATE}
         /\ maxBookingDate # Null
         /\ \/ date > maxBookingDate
            \/ exactMinBookingDays /\ date + minBookingDays - 1 > maxBookingDate)
        => Rejected]_vars

-----------------------------------------------------------------------------
(* Properties of the month window (SpecMonths) *)

MonthNumber(activeMonth) == activeMonth.year * 12 + activeMonth.month

\* C9: activeMonths has numberOfMonths entries, each the calendar month after
\* the one before it.
C9_WindowShape ==
    /\ Len(activeMonths) = numberOfMonths
    /\ \A i \in 1 .. (Len(activeMonths) - 1) :
            MonthNumber(activeMonths[i + 1]) = MonthNumber(activeMonths[i]) + 1

\* C10: after goToNextMonths, goToPreviousMonths gives back the window shown
\* before the two calls, and likewise in the other order.
C10_NextThenPrevious ==
    [][/\ call'.fn = "goToNextMonths"
            => getNextActiveMonth(activeMonths', numberOfMonths, -1) = activeMonths
       /\ call'.fn = "goToPreviousMonths"
            => getNextActiveMonth(activeMonths', numberOfMonths, 1) = activeMonths]_vars

\* C11: goToNextYear(N) makes the first visible month 12 * N months later,
\* goToPreviousYear(N) 12 * N months earlier, and neither changes the length
\* of the window.
C11_YearOffset ==
    [][/\ call'.fn = "goToNextYear"
            => /\ Len(activeMonths') = Len(activeMonths)
               /\ MonthNumber(activeMonths'[1])
                    = MonthNumber(activeMonths[1]) + 12 * call'.numYears
       /\ call'.fn = "goToPreviousYear"
            => /\ Len(activeMonths') = Len(activeMonths)
               /\ MonthNumber(activeMonths'[1])
                    = MonthNumber(activeMonths[1]) - 12 * call'.numYears]_vars

\* The counter the navigation call of a step passed to getNextActiveMonth.
Delta(fn, numYears) ==
    CASE fn = "goToNextMonths" -> 1
      [] fn = "goToPreviousMonths" -> -1
      [] fn = "goToNextYear" -> numYears * 12 - numberOfMonths + 1
      [] fn = "goToPreviousYear" -> -(numYears * 12 - numberOfMonths + 1)
      [] OTHER -> 0

\* C12 as stated: a navigation call moves every month of the window by the
\* delta it passes; goToNextMonths moves the first visible month one month
\* forwards and goToPreviousMonths one month backwards.
C12_ShiftByDelta ==
    [][LET delta == Delta(call'.fn, call'.numYears)
       IN  delta # 0 =>
             /\ Len(activeMonths') = Len(activeMonths)
             /\ \A i \in 1 .. Len(activeMonths) :
                    MonthNumber(activeMonths'[i]) = MonthNumber(activeMonths[i]) + delta]_vars

\* C12 amended: for delta > 0 the new window is the numberOfMonths consecutive
\* months starting delta months after the last entry of the old one, for
\* delta < 0 the numberOfMonths consecutive months ending -delta months before
\* its first entry; goToNextMonths starts the window at the month after the
\* last visible one, goToPreviousMonths ends it at the month before the first.
C12_PageByWindow ==
    [][LET delta == Delta(call'.fn, call'.numYears)
           last == MonthNumber(activeMonths[Len(activeMonths)])
           first == MonthNumber(activeMonths[1])
       IN  delta # 0 =>
             /\ Len(activeMonths') = numberOfMonths
             /\ \A i \in 1 .. numberOfMonths :
                    MonthNumber(activeMonths'[i]) =
                        IF delta > 0 THEN last + delta + (i - 1)
                        ELSE first + delta - (numberOfMonths - i)]_vars

\* goToNextMonths paged a two-month window from January-February 2024 on to
\* March-April.
C12_Witness ==
    /\ call.fn = "goToNextMonths"
    /\ numberOfMonths = 2
    /\ MonthNumber(activeMonths[1]) = 2024 * 12 + 2
    /\ MonthNumber(activeMonths[2]) = 2024 * 12 + 3

-----------------------------------------------------------------------------
(* Properties of the whole hook (Spec) *)

\* C13: onDateHover, on a date or on null, makes no onDatesChange call and
\* leaves startDate, endDate, focusedInput, activeMonths and focusedDate as
\* they were.
C13_HoverFrame ==
    [][call'.fn = "onDateHover"
        => /\ onDatesChange' = <<>>
           /\ UNCHANGED <<selection, activeMonths, focusedDate>>]_vars

\* A hover that was stored while a start date is selected and a date focused.
C13_Witness ==
    /\ call.fn = "onDateHover"
    /\ call.date # Null
    /\ hoveredDate = call.date
    /\ startDate # Null /\ endDate = Null
    /\ focusedDate # Null

\* The dates a calendar around the clicked ones renders.
RenderedDays == (Today - 1) .. (Today + NumDays + MaxMinBookingDays)

\* C14: not in exact mode, with a startDate and no endDate, after
\* onDateHover on a date before startDate isDateHovered is false for every date.
C14_BackwardHover ==
    (/\ call.fn = "onDateHover"
     /\ call.date # Null
     /\ ~exactMinBookingDays
     /\ startDate # Null /\ endDate = Null
     /\ call.date < startDate)
    => \A x \in RenderedDays : ~isDateHovered(x)

\* The backward hover was stored as hoveredDate, and still previews nothing.
C14_Witness ==
    /\ call.fn = "onDateHover"
    /\ ~exactMinBookingDays
    /\ startDate # Null /\ endDate = Null
    /\ call.date # Null /\ call.date < startDate
    /\ hoveredDate = call.date

-----------------------------------------------------------------------------
(* Frame properties of onDateSelect (SpecSelect) *)

\* None of the five conditions of onDateSelect holds for date.
NoRuleMatches(date) ==
    /\ ~ExactCommit(date)
    /\ ~Redirect(date)
    /\ ~StartKeepingEnd(date)
    /\ ~StartNoEnd(date)
    /\ ~EndPick(date)

\* C15: an onDateSelect that matches none of its five rules emits nothing and
\* leaves the selection, activeMonths, focusedDate and hoveredDate as they
\* were, whatever focusedInput is.
C15_RejectedClickFrame ==
    [][\A date \in Days :
        Click(date) /\ NoRuleMatches(date)
        => Rejected /\ UNCHANGED <<activeMonths, focusedDate, hoveredDate>>]_vars

\* C16: an onDateSelect made while focusedInput is END leaves activeMonths as
\* it was, whether it completes a range, redirects to a new startDate,
\* commits an exact-length range or is rejected.
C16_EndPickKeepsWindow ==
    [][\A date \in Days :
        Click(date) /\ focusedInput = END_DATE => UNCHANGED activeMonths]_vars

\* An end pick in February completed a range while the window still starts
\* at January.
C16_Witness ==
    /\ call.fn = "onDateSelect"
    /\ startDate # Null
    /\ onDatesChange = Emission(startDate, call.date, NoInput)
    /\ ~exactMinBookingDays
    /\ getMonth(call.date) = 1
    /\ activeMonths[1].month = 0

-----------------------------------------------------------------------------
(* Re-seeding of the month window (SpecMonths) *)

\* date and other lie in the same month of the same year.
SameCalendarMonth(date, other) ==
    getFullYear(date) = getFullYear(other) /\ getMonth(date) = getMonth(other)

\* C17: with a focusedDate, onDateFocus(date) and an accepted onDateSelect(date)
\* under focusedInput START leave activeMonths as it was when date is another
\* day of focusedDate's calendar month.
C17_SameMonthKeepsWindow ==
    [][\A date \in Days :
        (/\ focusedDate # Null
         /\ date # focusedDate
         /\ SameCalendarMonth(date, focusedDate)
         /\ \/ call'.fn = "onDateFocus" /\ call'.date = date
            \/ Click(date) /\ focusedInput = START_DATE /\ onDatesChange' # <<>>)
        => UNCHANGED activeMonths]_vars

-----------------------------------------------------------------------------
(* Navigation and key handling *)

NavigationHandlers ==
    {"goToPreviousMonths", "goToNextMonths", "goToPreviousYear", "goToNextYear"}

\* C18: each of the four navigation handlers sets focusedDate to null and
\* leaves startDate, endDate, focusedInput and hoveredDate as they were.
C18_NavigationFrame ==
    [][call'.fn \in NavigationHandlers
        => /\ focusedDate' = Null
           /\ onDatesChange' = <<>>
           /\ UNCHANGED <<selection, hoveredDate>>]_vars

\* A year navigation made while a start date is selected and a date hovered.
C18_Witness ==
    /\ call.fn = "goToNextYear"
    /\ focusedDate = Null
    /\ hoveredDate # Null
    /\ startDate # Null

\* C19: an arrow keydown with no focusedDate sets focusedDate to the first
\* day of activeMonths[0] and leaves the visible months as they were,
\* numberOfMonths of them starting at that month; with a focusedDate, or on
\* another key, focusedDate and activeMonths stay; the selection always stays.
C19_KeyDown ==
    [][call'.fn = "handleKeyDown"
        => /\ onDatesChange' = <<>>
           /\ UNCHANGED selection
           /\ IF call'.key \in ArrowKeys /\ focusedDate = Null
              THEN /\ focusedDate' = activeMonths[1].date
                   /\ getDate(focusedDate') = 1
                   /\ Len(activeMonths') = numberOfMonths
                   /\ activeMonths'[1] = activeMonths[1]
                   /\ activeMonths' = activeMonths
              ELSE UNCHANGED <<focusedDate, activeMonths>>]_vars

-----------------------------------------------------------------------------
(* The open-range start pick (SpecSelect) *)

\* onDateSelect(date) is a start pick into an open range: not exact mode,
\* minBookingDays > 1, focusedInput START, no endDate.
OpenStartPick(date) ==
    /\ Click(date)
    /\ ~exactMinBookingDays
    /\ minBookingDays > 1
    /\ focusedInput = START_DATE
    /\ endDate = Null

Accepted(date) ==
    /\ onDatesChange' = Emission(date, Null, END_DATE)
    /\ selection' = <<date, Null, END_DATE>>

\* C20 as stated: the open-range start pick is accepted if and only if every
\* date of [date, date + minBookingDays - 2] is unblocked.
C20_RoomToMinusTwo ==
    [][\A date \in Days :
        OpenStartPick(date) =>
            IF \A x \in date .. (date + minBookingDays - 2) : x \notin Blocked
            THEN Accepted(date)
            ELSE Rejected]_vars

\* C20 amended: the open-range start pick is accepted if and only if every
\* date of [date, date + minBookingDays - 1] is unblocked; a blocked date at
\* date + minBookingDays - 1 alone causes rejection.
C20_RoomToMinusOne ==
    [][\A date \in Days :
        OpenStartPick(date) =>
            IF \A x \in date .. (date + minBookingDays - 1) : x \notin Blocked
            THEN Accepted(date)
            ELSE Rejected]_vars

\* A start pick rejected only because date + minBookingDays - 1 is blocked.
C20_Witness ==
    /\ call.fn = "onDateSelect"
    /\ ~exactMinBookingDays
    /\ minBookingDays > 1
    /\ focusedInput = START_DATE
    /\ endDate = Null
    /\ onDatesChange = <<>>
    /\ \A x \in call.date .. (call.date + minBookingDays - 2) : x \notin Blocked
    /\ call.date + minBookingDays - 1 \in Blocked

-----------------------------------------------------------------------------
(* The rules of onDateSelect one by one (SpecSelect) *)

\* C21: not in exact mode, without bounds, with focusedInput END and a
\* startDate S, onDateSelect(date) for date not before S emits (S, date, NONE)
\* if and only if date is not before S + minBookingDays - 1 and every date of
\* [S, date] is unblocked; otherwise it leaves the selection as it was.
C21_EndPick ==
    [][\A date \in Days :
        (/\ Click(date)
         /\ ~exactMinBookingDays
         /\ minBookingDate = Null /\ maxBookingDate = Null
         /\ focusedInput = END_DATE
         /\ startDate # Null
         /\ date >= startDate)
        => IF /\ date >= startDate + minBookingDays - 1
              /\ \A x \in startDate .. date : x \notin Blocked
           THEN /\ onDatesChange' = Emission(startDate, date, NoInput)
                /\ selection' = <<startDate, date, NoInput>>
           ELSE Rejected]_vars

\* An end pick on an unblocked date rejected for being too close to startDate.
C21_Witness ==
    /\ call.fn = "onDateSelect"
    /\ ~exactMinBookingDays
    /\ minBookingDate = Null /\ maxBookingDate = Null
    /\ focusedInput = END_DATE
    /\ startDate # Null
    /\ call.date >= startDate
    /\ call.date < startDate + minBookingDays - 1
    /\ \A x \in startDate .. call.date : x \notin Blocked
    /\ onDatesChange = <<>>

C24_Exclusive ==
    \A date \in Days :
        Cardinality({i \in 1 .. 5 :
            \/ i = 1 /\ ExactCommit(date)
            \/ i = 2 /\ Redirect(date)
            \/ i = 3 /\ StartKeepingEnd(date)
            \/ i = 4 /\ StartNoEnd(date)
            \/ i = 5 /\ EndPick(date)}) <= 1

\* C24 amended: the exact-commit guard and the end-pick guard each exclude
\* the four other guards, and the redirect guard excludes the guard of the
\* start pick keeping the end; the guard of the start pick with no end may
\* hold together with either of those two, and the earlier rule decides.
C24_FirstMatchWins ==
    \A date \in Days :
        /\ ExactCommit(date)
            => ~(Redirect(date) \/ StartKeepingEnd(date) \/ StartNoEnd(date) \/ EndPick(date))
        /\ EndPick(date)
            => ~(ExactCommit(date) \/ Redirect(date) \/ StartKeepingEnd(date) \/ StartNoEnd(date))
        /\ ~(Redirect(date) /\ StartKeepingEnd(date))

\* After a click, a date for which both start-pick guards hold while an
\* endDate is set: the third rule would keep the end, the fourth clear it.
C24_Witness ==
    /\ call.fn = "onDateSelect"
    /\ endDate # Null
    /\ \E date \in Days : StartKeepingEnd(date) /\ StartNoEnd(date)

-----------------------------------------------------------------------------
(* Hover acceptance (Spec) *)

\* C25: in exact mode with minBookingDays > 1, onDateHover(date) stores date
\* only if every date of [date, date + minBookingDays - 1] lies within the
\* bounds and is unblocked; if one of them is blocked, hoveredDate is null
\* afterwards.
C25_ExactHover ==
    (/\ call.fn = "onDateHover"
     /\ call.date # Null
     /\ exactMinBookingDays
     /\ minBookingDays > 1)
    => LET range == call.date .. (call.date + minBookingDays - 1)
       IN  /\ hoveredDate = call.date
                => \A x \in range : InBounds(x) /\ x \notin Blocked
           /\ (\E x \in range : x \in Blocked) => hoveredDate = Null

\* C26: after onDateHover(x), hoveredDate is x or null, and after
\* onDateHover(null) it is null.
C26_HoverOrNull ==
    call.fn = "onDateHover" =>
        /\ hoveredDate \in {call.date, Null}
        /\ call.date = Null => hoveredDate = Null

\* A hover on a date that was not accepted, with a start date selected.
C26_Witness ==
    /\ call.fn = "onDateHover"
    /\ call.date # Null
    /\ startDate # Null
    /\ hoveredDate = Null

\* onDateHover(startDate) is decided by the re-hover rule alone: neither the
\* exact-length rule nor the open-range rule applies.
StartReHoverOnly ==
    /\ call.fn = "onDateHover"
    /\ startDate # Null
    /\ call.date = startDate
    /\ ~(exactMinBookingDays /\ minBookingDays > 1)
    /\ ~(endDate = Null /\ ~exactMinBookingDays)

\* C27 as stated: when only the re-hover rule applies, onDateHover(startDate)
\* stores it only if minBookingDays > 1 and every date of
\* [startDate, startDate + minBookingDays - 2] is unblocked; otherwise
\* hoveredDate is null afterwards.
C27_ReHoverNeedsStay ==
    StartReHoverOnly =>
        IF /\ minBookingDays > 1
           /\ \A x \in startDate .. (startDate + minBookingDays - 2) : x \notin Blocked
        THEN hoveredDate \in {startDate, Null}
        ELSE hoveredDate = Null

\* C27 amended: when only the re-hover rule applies, onDateHover(startDate)
\* always stores startDate, for minBookingDays = 1 as well.
C27_ReHoverStored ==
    StartReHoverOnly => hoveredDate = startDate

\* The start date of a complete range re-hovered with minBookingDays = 1.
C27_Witness ==
    /\ StartReHoverOnly
    /\ endDate # Null
    /\ minBookingDays = 1
    /\ hoveredDate = startDate

-----------------------------------------------------------------------------
(* isDateBlocked (SpecSelect) *)

\* C28: isDateBlocked(date) is true exactly when date is outside the bounds,
\* or is blocked by the list or the caller's predicate, or (startDate is set,
\* endDate is null, minBookingDays > 1, the mode is not exact and
\* startDate < date <= startDate + minBookingDays - 2).
C28_IsDateBlocked ==
    \A date \in Days :
        isDateBlocked(date) <=>
            \/ ~InBounds(date)
            \/ date \in Blocked
            \/ /\ startDate # Null
               /\ endDate = Null
               /\ minBookingDays > 1
               /\ ~exactMinBookingDays
               /\ startDate < date
               /\ date <= startDate + minBookingDays - 2

-----------------------------------------------------------------------------
(* Renders, batches and the listener (SpecRender) *)

\* The selection the rules of onDateSelect(date) lead to from the selection
\* sel: the pick evaluated against sel.
SelectionAfter(sel, date) ==
    LET range(startDate_, endDate_) ==
            canSelectRange(startDate_, endDate_, minBookingDays, FALSE, Null, Null)
        to(startDate_, endDate_, focusedInput_) ==
            [startDate |-> startDate_, endDate |-> endDate_,
             focusedInput |-> focusedInput_]
    IN  IF /\ sel.focusedInput \in {START_DATE, END_DATE}
           /\ exactMinBookingDays
           /\ canSelectRange(date, Null, minBookingDays, TRUE,
                             minBookingDate, maxBookingDate)
        THEN to(date, addDays(date, minBookingDays - 1), NoInput)
        ELSE IF exactMinBookingDays
        THEN sel
        ELSE IF /\ \/ /\ sel.focusedInput = END_DATE
                      /\ sel.startDate # Null /\ date < sel.startDate
                   \/ /\ sel.focusedInput = START_DATE
                      /\ sel.endDate # Null /\ date > sel.endDate
                /\ range(date, Null)
        THEN to(date, Null, END_DATE)
        ELSE IF sel.focusedInput = START_DATE /\ range(date, sel.endDate)
        THEN to(date, sel.endDate, END_DATE)
        ELSE IF sel.focusedInput = START_DATE /\ range(date, Null)
        THEN to(date, Null, END_DATE)
        ELSE IF /\ sel.focusedInput = END_DATE
                /\ sel.startDate # Null /\ date >= sel.startDate
                /\ range(sel.startDate, date)
        THEN to(sel.startDate, date, NoInput)
        ELSE sel

Selection == [startDate |-> startDate, endDate |-> endDate, focusedInput |-> focusedInput]

\* C29: of two handler calls made before the next render the second acts on
\* the state the first produced: two goToNextMonths calls advance the window
\* twice, and the second onDateSelect is evaluated against the selection the
\* first emitted.
C29_SecondSeesFirst ==
    [][/\ call'.fn = "goToNextMonthsTwice" =>
            activeMonths' =
                getNextActiveMonth(getNextActiveMonth(activeMonths, numberOfMonths, 1),
                                   numberOfMonths, 1)
       /\ call'.fn = "onDateSelectTwice" =>
            Selection' = SelectionAfter(SelectionAfter(Selection, call'.first), call'.date)
      ]_vars

\* C30: while the component is mounted exactly one keydown handler of the hook
\* is registered on window, the one of the latest render; after the unmount
\* none is registered.
C30_OneListener ==
    /\ mounted => listeners = {0}
    /\ ~mounted => listeners = {}

\* An unmount after a key press and a re-render.
C30_Witness ==
    /\ call.fn = "unmount"
    /\ ~mounted
    /\ focusedDate # Null
    /\ listeners = {}

\* onDateSelect(date) leads from the selection of the render to
\* SelectionAfter(Selection, date).
SelectionAfterIsOnDateSelect ==
    [][call'.fn = "onDateSelect" => Selection' = SelectionAfter(Selection, call'.date)]_vars

-----------------------------------------------------------------------------
(* Invariants of the emitted and the committed selection *)

\* C34: every selection passed to onDatesChange by onDateSelect or
\* onResetDates is (null, null, START), (S, null, END), (S, E, END) or
\* (S, E, NONE) with S and E dates.
C34_EmittedShape ==
    call.fn \in {"onDateSelect", "onResetDates"} =>
        \A i \in 1 .. Len(onDatesChange) :
            LET e == onDatesChange[i]
            IN  \/ e.startDate = Null /\ e.endDate = Null /\ e.focusedInput = START_DATE
                \/ e.startDate # Null /\ e.endDate = Null /\ e.focusedInput = END_DATE
                \/ e.startDate # Null /\ e.endDate # Null /\ e.focusedInput = END_DATE
                \/ e.startDate # Null /\ e.endDate # Null /\ e.focusedInput = NoInput

\* A start pick that kept the end date: (S, E, END).
C34_Witness ==
    /\ call.fn = "onDateSelect"
    /\ Len(onDatesChange) = 1
    /\ onDatesChange[1].startDate # Null
    /\ onDatesChange[1].endDate # Null
    /\ onDatesChange[1].focusedInput = END_DATE

\* C35: in exact mode onDateSelect(date) emits either nothing or the complete
\* selection (date, date + minBookingDays - 1, NONE).
C35_ExactAllOrNothing ==
    (call.fn = "onDateSelect" /\ exactMinBookingDays) =>
        \/ onDatesChange = <<>>
        \/ onDatesChange = Emission(call.date, call.date + minBookingDays - 1, NoInput)

\* An exact pick rejected although the clicked date alone is selectable.
C35_Witness ==
    /\ call.fn = "onDateSelect"
    /\ exactMinBookingDays
    /\ minBookingDays > 1
    /\ focusedInput = START_DATE
    /\ onDatesChange = <<>>
    /\ InBounds(call.date)
    /\ call.date \notin Blocked

\* C36: from the empty selection, whenever startDate and endDate are both
\* set, no date of [startDate, endDate] is blocked and the range spans at
\* least minBookingDays days.
C36_CommittedRange ==
    (startDate # Null /\ endDate # Null) =>
        /\ \A x \in startDate .. endDate : x \notin Blocked
        /\ endDate >= startDate + minBookingDays - 1

\* A range completed by an end pick, with a blocked date in the calendar.
C36_Witness ==
    /\ call.fn = "onDateSelect"
    /\ startDate # Null /\ endDate # Null
    /\ ~exactMinBookingDays
    /\ unavailableDates # {}

\* C37: a date in the hover preview is not blocked and hoveredDate is set;
\* outside exact mode no date is both selected and in the preview.
C37_PreviewSound ==
    \A x \in Days :
        /\ isDateHovered(x) => hoveredDate # Null /\ x \notin Blocked
        /\ ~exactMinBookingDays => ~(isDateSelected(x) /\ isDateHovered(x))

\* A preview of more than one day.
C37_Witness ==
    /\ ~exactMinBookingDays
    /\ startDate # Null
    /\ hoveredDate # Null
    /\ hoveredDate > startDate
    /\ \A x \in startDate .. hoveredDate : isDateHovered(x)

-----------------------------------------------------------------------------
(* The day grid (SpecGrid) *)

\* The number of blank cells the grid of the rendered month should start
\* with: ((weekday of the 1st) - firstDayOfWeek) mod 7.
LeadingBlanks ==
    LET first == DateOf(useMonthProps.year, useMonthProps.month, 1)
    IN  ((((first + 4) % 7) - useMonthProps.firstDayOfWeek) + 7) % 7

-----------------------------------------------------------------------------
(* The debounced text inputs (SpecInput) *)

\* C31: at most one parse timer is pending per input; a timer that fires
\* parses the text of the most recent keystroke of its input, leaves no timer
\* of that input pending and invokes onDateSelect at most once.
C31_Debounce ==
    /\ [](\A id \in InputIds : Len(inputs[id].timers) <= 1)
    /\ [][call'.fn = "timeout" =>
            /\ call'.text = inputs[call'.id].typed
            /\ inputs'[call'.id].timers = <<>>
            /\ Len(onDatesChange') <= 1]_vars

\* The timer of a keystroke that cancelled the timer of the keystroke
\* before it has fired and selected a date.
C31_Witness ==
    /\ call.fn = "timeout"
    /\ onDatesChange # <<>>
    /\ call.cancelled
    /\ inputs[call.id].timers = <<>>

\* C32: when the timer fires on a text that does not parse to a date,
\* onDateSelect is not called and startDate, endDate and focusedInput keep
\* their values.
C32_FailedParseKeepsSelection ==
    [][(call'.fn = "timeout" /\ parse(call'.text) = Null) =>
            /\ onDatesChange' = <<>>
            /\ UNCHANGED selection]_vars

====
